---- MODULE Spec2Model ----
(***************************************************************************)
(* Gab'z Laundromat: the Paystack webhook receiver (POST and its event     *)
(* handlers), the receipt page (loadOrderData and its render guards) and   *)
(* the OrderReceipt totals, as state machines over the external document   *)
(* store and the messaging service.                                        *)
(***************************************************************************)
EXTENDS Integers, Sequences, FiniteSets, TLC

VARIABLES
    secret,     \* process.env.PAYSTACK_SECRET_KEY (NoSecret when unset)
    orders,     \* the orders collection of the document store
    pc,         \* per webhook delivery: the await the request is parked at
    body,       \* per delivery: the raw request body (index into Bodies)
    header,     \* per delivery: the x-paystack-signature header
    resp,       \* per delivery: the HTTP response produced
    calls,      \* per delivery: the external calls issued, with their results
    page,       \* the receipt page: route, auth context and component state
    callback,   \* the payment callback page: query string and component state
    authService, \* the AuthService operation in progress, its calls and result
    backend     \* the Appwrite project: accounts, documents, current session

vars == <<secret, orders, pc, body, header, resp, calls, page, callback, authService, backend>>

\* ------------------------------------------------------------------ bounds
NReq == 2                       \* webhook deliveries handled in one run

Reqs == 1..NReq

\* -------------------------------------------------------------- signatures
NoSecret == 0
RealSecret == 3
WrongSecret == 5

HexLower == <<"0","1","2","3","4","5","6","7","8","9","a","b","c","d","e","f">>
HexUpper == <<"0","1","2","3","4","5","6","7","8","9","A","B","C","D","E","F">>

\* the two hex digits of one byte, most significant first
HexOf(byte, digits) == <<digits[(byte \div 16) + 1], digits[(byte % 16) + 1]>>

\* crypto.createHmac('sha512', secret).update(body).digest('hex'): a keyed
\* digest of the body, shortened to one byte, in lower-case hex
Hmac(b, key) == (b * 37 + key * 101 + 11) % 256

HmacHex(b, key) == HexOf(Hmac(b, key), HexLower)

\* a header is absent (headers.get gives null) or a string
NoHeader == [present |-> FALSE, value |-> <<>>]
Hdr(s) == [present |-> TRUE, value |-> s]

\* variant: the comparison ignores the case of the hex digits
verifyPaystackSignature_AnyCase(b, signature, sec) ==
    IF sec = NoSecret THEN FALSE
    ELSE \/ HmacHex(b, sec) = signature
         \/ HexOf(Hmac(b, sec), HexUpper) = signature

verifyPaystackSignature(b, signature, sec) ==
    IF sec = NoSecret THEN FALSE
    ELSE HmacHex(b, sec) = signature

\* ----------------------------------------------------------------- payloads
\* "" stands for a field that is absent or falsy in the JSON payload
Meta(oid, phone, name, num) ==
    [orderId |-> oid, customerPhone |-> phone, customerName |-> name,
     orderNumber |-> num, amount |-> 0]

NoMeta == Meta("", "", "", "")

Evt(ev, meta) ==
    [parse |-> "ok", event |-> ev, hasData |-> TRUE, metadata |-> meta]

\* JSON.parse of each request body the model draws from.  metadata is NoMeta
\* when event.data carries none; hasData is FALSE when the event has no data
\* member; parse is "throw" for a body that is not JSON.
Bodies == <<
    Evt("charge.success", Meta("o1", "+2348000000000", "Ada", "")),
    Evt("charge.success", Meta("o1", "+2348000000000", "Ada", "GAB-001")),
    Evt("charge.success", Meta("o1", "+2348000000000", "", "")),
    Evt("charge.success", Meta("", "+2348000000000", "Ada", "")),
    Evt("charge.success", Meta("o9", "+2348000000000", "Ada", "")),
    Evt("charge.failed", Meta("o1", "+2348000000000", "Ada", "")),
    Evt("charge.failed", Meta("o1", "", "Ada", "GAB-001")),
    Evt("charge.failed", NoMeta),
    Evt("transfer.success", NoMeta),
    Evt("transfer.failed", NoMeta),
    Evt("subscription.create", NoMeta),
    [parse |-> "ok", event |-> "charge.success", hasData |-> FALSE, metadata |-> NoMeta],
    [parse |-> "throw", event |-> "", hasData |-> FALSE, metadata |-> NoMeta]
>>

BodyIds == DOMAIN Bodies

JSONparse(b) == Bodies[b]

\* the bodies that are also delivered with a missing or wrong signature
ProbedBodies == {1, 6, 13}

\* the signature headers a delivery of body b may carry: the digest under the
\* real secret and, for the probed bodies, no header, an empty header, the
\* digest in upper case and the digest under another secret
HeadersFor(b) ==
    IF b \in ProbedBodies
    THEN { NoHeader,
           Hdr(<<>>),
           Hdr(HmacHex(b, RealSecret)),
           Hdr(HexOf(Hmac(b, RealSecret), HexUpper)),
           Hdr(HmacHex(b, WrongSecret)) }
    ELSE { Hdr(HmacHex(b, RealSecret)) }

\* ------------------------------------------------------------ document store
OrderIds == {"o1", "o2"}
UserIds == {"u1", "u2"}

\* lib/database and lib/notifications results: the call succeeded, reported
\* success=false, or threw
Outcomes == {"ok", "fail", "throw"}

\* a write to a document that does not exist cannot succeed
DbOutcomes(id) == IF id \in OrderIds THEN Outcomes ELSE {"fail", "throw"}

updateOrderPaymentStatus(ords, id, ps, out) ==
    IF out = "ok" /\ id \in DOMAIN ords
    THEN [ords EXCEPT ![id].paymentStatus = ps]
    ELSE ords

updateOrderStatus(ords, id, st, out) ==
    IF out = "ok" /\ id \in DOMAIN ords
    THEN [ords EXCEPT ![id].status = st]
    ELSE ords

\* the order document as the creation path stores it: amounts in kobo
MakeOrder(cust, total, discount) ==
    [customerId |-> cust, totalAmount |-> total, discountAmount |-> discount,
     finalAmount |-> total - discount,
     paymentStatus |-> "pending", status |-> "pending"]

Call(op, args, res) == [op |-> op, args |-> args, res |-> res]

\* ------------------------------------------------------------- AuthService
\* the people who use the service: an active admin, a deactivated admin, a
\* registered customer and somebody without an account
AuthUsers == {"admin", "exadmin", "cust", "new"}

\* what a caller passes: who it is about, whether the zod schema accepts the
\* fields, whether validateNigerianPhone accepts the phone number
NoInput == [user |-> "", valid |-> FALSE, phoneOk |-> FALSE]
Inputs == [user : AuthUsers, valid : BOOLEAN, phoneOk : BOOLEAN]

\* ApiResponse: success, error, and the role loginAdmin adds to its data
NoAuthResult == [set |-> FALSE, success |-> FALSE, error |-> "", role |-> ""]
Ok(role) == [set |-> TRUE, success |-> TRUE, error |-> "", role |-> role]
Err(msg) == [set |-> TRUE, success |-> FALSE, error |-> msg, role |-> ""]

\* no operation of the service is running
AuthIdle == [pc |-> "idle", op |-> "", input |-> NoInput, user |-> "",
             calls |-> <<>>, result |-> NoAuthResult, threw |-> FALSE]

NoSession == "none"

\* the project before any operation: three accounts, nobody signed in
BackendInit == [accounts |-> {"admin", "exadmin", "cust"},
                profiles |-> {"cust"},
                session |-> NoSession,
                lastLogin |-> {}]

\* the documents of the admin-users collection
AdminUsers == {"admin", "exadmin"}
AdminDoc(u) == [isActive |-> (u = "admin"), role |-> "admin"]

\* whether the Appwrite call can succeed on this project state
CanSucceed(bk, call, u) ==
    CASE call = "account.create" -> u \notin bk.accounts
      [] call = "users.createDocument" -> u \notin bk.profiles
      [] call = "account.createEmailPasswordSession" -> u \in bk.accounts
      [] call = "account.createRecovery" -> u \in bk.accounts
      [] call = "users.getDocument" -> u \in bk.profiles
      [] call = "adminUsers.getDocument" -> u \in AdminUsers
      [] call = "adminUsers.updateDocument" -> u \in AdminUsers
      [] call \in {"account.updateRecovery", "account.updateVerification"} -> TRUE
      [] OTHER -> bk.session # NoSession

\* a call either resolves or rejects; one that cannot succeed rejects
ExtOutcomes(bk, call, u) ==
    IF CanSucceed(bk, call, u) THEN {"ok", "throw"} ELSE {"throw"}

\* the project after the call
Apply(bk, call, u, out) ==
    IF out # "ok" THEN bk
    ELSE CASE call = "account.create" -> [bk EXCEPT !.accounts = @ \cup {u}]
           [] call = "users.createDocument" -> [bk EXCEPT !.profiles = @ \cup {u}]
           [] call = "account.createEmailPasswordSession" -> [bk EXCEPT !.session = u]
           [] call = "account.deleteSession" -> [bk EXCEPT !.session = NoSession]
           [] call = "adminUsers.updateDocument" -> [bk EXCEPT !.lastLogin = @ \cup {u}]
           [] OTHER -> bk

\* the operations that make one external call inside one try/catch
SimpleOps == {"getCurrentUser", "getUserProfile", "getAdminProfile", "logout",
              "resetPassword", "completePasswordReset", "verifyEmail",
              "sendEmailVerification", "updatePassword", "getSessions",
              "deleteSession"}

AuthOps == SimpleOps \cup {"registerCustomer", "loginCustomer", "loginAdmin"}

\* the one call of a simple operation
CallOf(op) ==
    CASE op = "getCurrentUser" -> "account.get"
      [] op = "getUserProfile" -> "users.getDocument"
      [] op = "getAdminProfile" -> "adminUsers.getDocument"
      [] op = "logout" -> "account.deleteSession"
      [] op = "resetPassword" -> "account.createRecovery"
      [] op = "completePasswordReset" -> "account.updateRecovery"
      [] op = "verifyEmail" -> "account.updateVerification"
      [] op = "sendEmailVerification" -> "account.createVerification"
      [] op = "updatePassword" -> "account.updatePassword"
      [] op = "getSessions" -> "account.listSessions"
      [] op = "deleteSession" -> "account.deleteSession"

\* the message its catch block returns
ErrorOf(op) ==
    CASE op = "getCurrentUser" -> "No active session found"
      [] op = "getUserProfile" -> "Failed to fetch user profile"
      [] op = "getAdminProfile" -> "Failed to fetch admin profile"
      [] op = "logout" -> "Logout failed"
      [] op = "resetPassword" -> "Failed to send password reset email"
      [] op = "completePasswordReset" -> "Failed to update password"
      [] op = "verifyEmail" -> "Email verification failed"
      [] op = "sendEmailVerification" -> "Failed to send verification email"
      [] op = "updatePassword" -> "Failed to update password"
      [] op = "getSessions" -> "Failed to fetch sessions"
      [] op = "deleteSession" -> "Failed to delete session"
      [] op = "registerCustomer" -> "Registration failed. Please try again."
      [] op \in {"loginCustomer", "loginAdmin"} -> "Invalid email or password"

\* the operation returns its result
Returns(a, result) == [a EXCEPT !.pc = "done", !.result = result]

\* the operation moves on to its next await
Awaits(a, call) == [a EXCEPT !.pc = call]

\* an operation from its call to its first await: the schema validation of
\* registerCustomer, loginCustomer and loginAdmin and the phone check
Begin(op, in) ==
    LET a == [AuthIdle EXCEPT !.op = op, !.input = in] IN
    IF op \in SimpleOps THEN Awaits(a, CallOf(op))
    ELSE IF ~in.valid THEN Returns(a, Err("validation"))
    ELSE IF op = "registerCustomer" /\ ~in.phoneOk
    THEN Returns(a, Err("Invalid Nigerian phone number format. Use +234XXXXXXXXX"))
    ELSE IF op = "registerCustomer" THEN Awaits(a, "account.create")
    ELSE Awaits(a, "account.createEmailPasswordSession")

\* ------------------------------------------------------------ HTTP responses
NoResp == [status |-> 0, json |-> ""]
MissingSignature == [status |-> 400, json |-> "error: Missing signature"]
InvalidSignature == [status |-> 400, json |-> "error: Invalid signature"]
StatusSuccess == [status |-> 200, json |-> "status: success"]
ProcessingFailed == [status |-> 500, json |-> "error: Webhook processing failed"]

\* variant: handlePaymentSuccess without its orderId check
handlePaymentSuccessEntry_NoIdCheck(e) ==
    IF ~e.hasData THEN "return" ELSE "payWrite"

\* handlePaymentSuccess up to its first await: destructuring undefined data
\* throws into the handler's own catch; a missing orderId returns early
handlePaymentSuccessEntry(e) ==
    IF ~e.hasData THEN "return"
    ELSE IF e.metadata.orderId = "" THEN "return"
    ELSE "payWrite"

handlePaymentFailedEntry(e) ==
    IF ~e.hasData THEN "return"
    ELSE IF e.metadata.orderId = "" THEN "return"
    ELSE "failWrite"

\* the switch on event.event, up to the first await of the chosen handler
Switch(e) ==
    CASE e.event = "charge.success" -> handlePaymentSuccessEntry(e)
      [] e.event = "charge.failed" -> handlePaymentFailedEntry(e)
      [] e.event = "transfer.success" -> "return"
      [] e.event = "transfer.failed" -> "return"
      [] OTHER -> "return"

\* variant: a body that does not parse is acknowledged like an unhandled event
ParseAndSwitch_Lenient(b) ==
    LET e == JSONparse(b) IN
    IF e.parse # "ok" THEN "return" ELSE Switch(e)

\* JSON.parse(body): a syntax error throws and reaches the catch of POST
ParseAndSwitch(b) ==
    LET e == JSONparse(b) IN
    IF e.parse # "ok" THEN "raise" ELSE Switch(e)

\* POST from the top to the first await inside a handler
Dispatch(b, h, sec) ==
    IF ~h.present \/ h.value = <<>> THEN "missing"
    ELSE IF ~verifyPaystackSignature(b, h.value, sec) THEN "invalid"
    ELSE ParseAndSwitch(b)

\* variant: the notification always names the order by its document id
NotifyOrderRef_IdOnly(m) == m.orderId

\* the order reference handed to the messaging service
NotifyOrderRef(m) == IF m.orderNumber # "" THEN m.orderNumber ELSE m.orderId

\* variant: the guard asks for the phone number only
WantsNotify_PhoneOnly(m) == m.customerPhone # ""

\* the notification guard of both handlers
WantsNotify(m) == m.customerPhone # "" /\ m.customerName # ""

\* variant: the status write follows whatever the payment write reported
AfterPaidWrite_Unconditional(out) == IF out = "throw" THEN "return" ELSE "statusWrite"

\* handlePaymentSuccess after updateOrderPaymentStatus has settled
AfterPaidWrite(out) == IF out = "ok" THEN "statusWrite" ELSE "return"

\* variant: handlePaymentSuccess without its try/catch, a throw reaches POST
AfterStatusWrite_Uncaught(out, m) ==
    IF out = "throw" THEN "raise"
    ELSE IF WantsNotify(m) THEN "pickup" ELSE "return"

\* handlePaymentSuccess after updateOrderStatus has settled (result unused)
AfterStatusWrite(out, m) ==
    IF out = "throw" THEN "return"
    ELSE IF WantsNotify(m) THEN "pickup" ELSE "return"

\* variant: the failure handler sends the notification of the success handler
AfterFailedWrite_Pickup(out, m) ==
    IF out = "throw" THEN "return"
    ELSE IF WantsNotify(m) THEN "pickup" ELSE "return"

\* handlePaymentFailed after updateOrderPaymentStatus has settled (result unused)
AfterFailedWrite(out, m) ==
    IF out = "throw" THEN "return"
    ELSE IF WantsNotify(m) THEN "reminder" ELSE "return"

MetaOf(r) == JSONparse(body[r]).metadata

\* the response POST produces when control leaves it by the given exit
ResponseOf(exit) ==
    CASE exit = "missing" -> MissingSignature
      [] exit = "invalid" -> InvalidSignature
      [] exit = "raise" -> ProcessingFailed
      [] exit = "return" -> StatusSuccess

Exits == {"missing", "invalid", "raise", "return"}

\* move delivery r to the next await, or produce the response of POST
Goto(r, p) ==
    IF p \in Exits
    THEN /\ pc' = [pc EXCEPT ![r] = "done"]
         /\ resp' = [resp EXCEPT ![r] = ResponseOf(p)]
    ELSE /\ pc' = [pc EXCEPT ![r] = p]
         /\ UNCHANGED resp

\* -------------------------------------------------------------- receipt page
NoUser == "none"        \* useAuth() gave no user object
NoOrder == [customerId |-> "", totalAmount |-> 0, discountAmount |-> 0,
            finalAmount |-> 0, paymentStatus |-> "", status |-> ""]

ItemsOf(id) == <<[orderId |-> id, serviceId |-> "s1"]>>
ActiveServices == <<"s1">>

\* the component as first rendered: the useState initial values
Mounted(auth, user, id) ==
    [pc |-> "effect", isAuthenticated |-> auth, user |-> user, id |-> id,
     lookup |-> "none", order |-> NoOrder, orderItems |-> <<>>, services |-> <<>>,
     isLoading |-> TRUE, error |-> ""]

\* variant: the ownership test is skipped when there is no user object
NotOwner_UserOnly(order, user) == user # NoUser /\ order.customerId # user

\* order.customerId !== user?.$id
NotOwner(order, user) == order.customerId # user

\* loadOrderData from getOrderById's result to the next await or the end
AfterGetOrder(pg, ords, out) ==
    IF out = "throw"
    THEN [pg EXCEPT !.lookup = out, !.error = "Failed to load order data",
                    !.isLoading = FALSE, !.pc = "done"]
    ELSE IF out = "fail" \/ pg.id \notin DOMAIN ords
    THEN [pg EXCEPT !.lookup = "fail", !.error = "Order not found",
                    !.isLoading = FALSE, !.pc = "done"]
    ELSE IF NotOwner(ords[pg.id], pg.user)
    THEN [pg EXCEPT !.lookup = out, !.error = "Access denied",
                    !.isLoading = FALSE, !.pc = "done"]
    ELSE [pg EXCEPT !.lookup = out, !.order = ords[pg.id],
                    !.orderItems = ItemsOf(pg.id), !.pc = "getServices"]

\* loadOrderData from getActiveServices' result to the end
AfterGetServices(pg, out) ==
    IF out = "throw"
    THEN [pg EXCEPT !.error = "Failed to load order data",
                    !.isLoading = FALSE, !.pc = "done"]
    ELSE IF out = "ok"
    THEN [pg EXCEPT !.services = ActiveServices, !.isLoading = FALSE, !.pc = "done"]
    ELSE [pg EXCEPT !.isLoading = FALSE, !.pc = "done"]

\* the render guards of ReceiptPage
View(pg) ==
    IF ~pg.isAuthenticated \/ pg.user = NoUser THEN "null"
    ELSE IF pg.isLoading THEN "spinner"
    ELSE IF pg.error # "" \/ pg.order = NoOrder THEN "error"
    ELSE "receipt"

\* lib/validations formatNairaFromKobo: naira and kobo of an amount in kobo
formatNairaFromKobo(k) == [naira |-> k \div 100, kobo |-> k % 100]

\* the amount a formatted figure reads as, in kobo
ShownKobo(f) == f.naira * 100 + f.kobo

\* variant: the Total line shows the amount before the discount
ReceiptTotals_Gross(order) ==
    [subtotal |-> formatNairaFromKobo(order.totalAmount),
     hasDiscount |-> order.discountAmount > 0,
     discount |-> formatNairaFromKobo(order.discountAmount),
     total |-> formatNairaFromKobo(order.totalAmount)]

\* the Total section of OrderReceipt
ReceiptTotals(order) ==
    [subtotal |-> formatNairaFromKobo(order.totalAmount),
     hasDiscount |-> order.discountAmount > 0,
     discount |-> formatNairaFromKobo(order.discountAmount),
     total |-> formatNairaFromKobo(order.finalAmount)]

\* ----------------------------------------------------- payment callback page
NoResult == [set |-> FALSE, success |-> FALSE, message |-> "",
             orderId |-> "", orderNumber |-> ""]

Failure(msg) == [set |-> TRUE, success |-> FALSE, message |-> msg,
                 orderId |-> "", orderNumber |-> ""]

\* the order number stored with each order
OrderNumberOf(id) == IF id = "o1" THEN "GAB-001" ELSE "GAB-002"

\* the component as first rendered for ?reference=..&orderId=..
CallbackMounted(reference, orderId) ==
    [pc |-> "effect", reference |-> reference, orderId |-> orderId,
     isVerifying |-> TRUE, verificationResult |-> NoResult, redirect |-> ""]

\* what paymentService.verifyPayment(reference) can come back with
VerifyOutcomes == {"success", "abandoned", "fail", "throw"}

\* verifyPayment up to its first await
CallbackStart(cb) ==
    IF cb.reference = ""
    THEN [cb EXCEPT !.pc = "done", !.isVerifying = FALSE,
                    !.verificationResult = Failure("Payment reference not found")]
    ELSE [cb EXCEPT !.pc = "verify"]

\* the page shows success for the order and schedules the redirect
Verified(cb, orderNumber) ==
    [cb EXCEPT !.pc = "done", !.isVerifying = FALSE,
               !.verificationResult =
                   [set |-> TRUE, success |-> TRUE,
                    message |-> "Payment successful! Your order has been confirmed.",
                    orderId |-> cb.orderId, orderNumber |-> orderNumber],
               !.redirect = IF cb.orderId # "" THEN cb.orderId ELSE ""]

Unverified(cb, msg) ==
    [cb EXCEPT !.pc = "done", !.isVerifying = FALSE,
               !.verificationResult = Failure(msg)]

\* verifyPayment from the gateway's answer to the next await or the end
AfterVerify(cb, out) ==
    IF out = "throw" THEN Unverified(cb, "An error occurred while verifying payment.")
    ELSE IF out = "fail"
    THEN Unverified(cb, "Unable to verify payment. Please contact support.")
    ELSE IF out = "abandoned"
    THEN Unverified(cb, "Payment was not successful. Please try again.")
    ELSE IF cb.orderId # "" THEN [cb EXCEPT !.pc = "getOrder"]
    ELSE Verified(cb, "")

\* verifyPayment from getOrderById's result to the end
AfterCallbackGetOrder(cb, out) ==
    IF out = "throw" THEN Unverified(cb, "An error occurred while verifying payment.")
    ELSE IF out = "ok" THEN Verified(cb, OrderNumberOf(cb.orderId))
    ELSE Verified(cb, "")

\* -------------------------------------------------------------------- actions
InitOrders == [id \in OrderIds |->
    IF id = "o1" THEN MakeOrder("u1", 1050, 50) ELSE MakeOrder("u2", 150, 0)]

Init ==
    /\ secret \in {NoSecret, RealSecret}
    /\ orders = InitOrders
    /\ pc = [r \in Reqs |-> "idle"]
    /\ body = [r \in Reqs |-> 1]
    /\ header = [r \in Reqs |-> NoHeader]
    /\ resp = [r \in Reqs |-> NoResp]
    /\ calls = [r \in Reqs |-> <<>>]
    /\ page = Mounted(FALSE, NoUser, "o1")
    /\ callback = CallbackMounted("", "")
    /\ authService = AuthIdle
    /\ backend = BackendInit

\* a delivery arrives: POST runs to its first suspension point
POST(r) ==
    /\ pc[r] = "idle"
    /\ \E b \in BodyIds : \E h \in HeadersFor(b) :
         /\ body' = [body EXCEPT ![r] = b]
         /\ header' = [header EXCEPT ![r] = h]
         /\ Goto(r, Dispatch(b, h, secret))
    /\ UNCHANGED <<secret, orders, calls, page, callback, authService, backend>>

\* variant: an order already marked paid is not processed again
SuccessPaymentWrite_Once(r) ==
    /\ pc[r] = "payWrite"
    /\ IF MetaOf(r).orderId \in OrderIds /\ orders[MetaOf(r).orderId].paymentStatus = "paid"
       THEN /\ Goto(r, "return")
            /\ UNCHANGED <<orders, calls>>
       ELSE \E out \in DbOutcomes(MetaOf(r).orderId) :
            /\ orders' = updateOrderPaymentStatus(orders, MetaOf(r).orderId, "paid", out)
            /\ calls' = [calls EXCEPT ![r] = Append(@,
                   Call("updateOrderPaymentStatus", <<MetaOf(r).orderId, "paid">>, out))]
            /\ Goto(r, AfterPaidWrite(out))
    /\ UNCHANGED <<secret, body, header, page, callback, authService, backend>>

\* handlePaymentSuccess: await updateOrderPaymentStatus(orderId, PAID, ...)
SuccessPaymentWrite(r) ==
    /\ pc[r] = "payWrite"
    /\ \E out \in DbOutcomes(MetaOf(r).orderId) :
         /\ orders' = updateOrderPaymentStatus(orders, MetaOf(r).orderId, "paid", out)
         /\ calls' = [calls EXCEPT ![r] = Append(@,
                Call("updateOrderPaymentStatus", <<MetaOf(r).orderId, "paid">>, out))]
         /\ Goto(r, AfterPaidWrite(out))
    /\ UNCHANGED <<secret, body, header, page, callback, authService, backend>>

\* variant: the handler is not awaited past the status write, POST answers
\* while the notification is still to be sent
SuccessStatusWrite_Unawaited(r) ==
    /\ pc[r] = "statusWrite"
    /\ \E out \in DbOutcomes(MetaOf(r).orderId) :
         /\ orders' = updateOrderStatus(orders, MetaOf(r).orderId, "confirmed", out)
         /\ calls' = [calls EXCEPT ![r] = Append(@,
                Call("updateOrderStatus", <<MetaOf(r).orderId, "confirmed">>, out))]
         /\ pc' = [pc EXCEPT ![r] =
                IF AfterStatusWrite(out, MetaOf(r)) = "return" THEN "done" ELSE "pickup"]
         /\ resp' = [resp EXCEPT ![r] = StatusSuccess]
    /\ UNCHANGED <<secret, body, header, page, callback, authService, backend>>

\* handlePaymentSuccess: await updateOrderStatus(orderId, CONFIRMED, ...)
SuccessStatusWrite(r) ==
    /\ pc[r] = "statusWrite"
    /\ \E out \in DbOutcomes(MetaOf(r).orderId) :
         /\ orders' = updateOrderStatus(orders, MetaOf(r).orderId, "confirmed", out)
         /\ calls' = [calls EXCEPT ![r] = Append(@,
                Call("updateOrderStatus", <<MetaOf(r).orderId, "confirmed">>, out))]
         /\ Goto(r, AfterStatusWrite(out, MetaOf(r)))
    /\ UNCHANGED <<secret, body, header, page, callback, authService, backend>>

\* handlePaymentSuccess: await whatsappService.sendPickupConfirmation(...)
SuccessNotify(r) ==
    /\ pc[r] = "pickup"
    /\ \E out \in Outcomes :
         calls' = [calls EXCEPT ![r] = Append(@,
                Call("sendPickupConfirmation",
                     <<MetaOf(r).customerPhone, MetaOf(r).customerName,
                       NotifyOrderRef(MetaOf(r))>>, out))]
    /\ Goto(r, "return")
    /\ UNCHANGED <<secret, orders, body, header, page, callback, authService, backend>>

\* variant: a failure event leaves an order that is already paid alone
FailedPaymentWrite_KeepsPaid(r) ==
    /\ pc[r] = "failWrite"
    /\ IF MetaOf(r).orderId \in OrderIds /\ orders[MetaOf(r).orderId].paymentStatus = "paid"
       THEN /\ Goto(r, "return")
            /\ UNCHANGED <<orders, calls>>
       ELSE \E out \in DbOutcomes(MetaOf(r).orderId) :
            /\ orders' = updateOrderPaymentStatus(orders, MetaOf(r).orderId, "failed", out)
            /\ calls' = [calls EXCEPT ![r] = Append(@,
                   Call("updateOrderPaymentStatus", <<MetaOf(r).orderId, "failed">>, out))]
            /\ Goto(r, AfterFailedWrite(out, MetaOf(r)))
    /\ UNCHANGED <<secret, body, header, page, callback, authService, backend>>

\* handlePaymentFailed: await updateOrderPaymentStatus(orderId, FAILED, ...)
FailedPaymentWrite(r) ==
    /\ pc[r] = "failWrite"
    /\ \E out \in DbOutcomes(MetaOf(r).orderId) :
         /\ orders' = updateOrderPaymentStatus(orders, MetaOf(r).orderId, "failed", out)
         /\ calls' = [calls EXCEPT ![r] = Append(@,
                Call("updateOrderPaymentStatus", <<MetaOf(r).orderId, "failed">>, out))]
         /\ Goto(r, AfterFailedWrite(out, MetaOf(r)))
    /\ UNCHANGED <<secret, body, header, page, callback, authService, backend>>

\* handlePaymentFailed: await whatsappService.sendPaymentReminder(...)
FailedNotify(r) ==
    /\ pc[r] = "reminder"
    /\ \E out \in Outcomes :
         calls' = [calls EXCEPT ![r] = Append(@,
                Call("sendPaymentReminder",
                     <<MetaOf(r).customerPhone, MetaOf(r).customerName,
                       NotifyOrderRef(MetaOf(r))>>, out))]
    /\ Goto(r, "return")
    /\ UNCHANGED <<secret, orders, body, header, page, callback, authService, backend>>

Handle(r) ==
    \/ SuccessPaymentWrite(r)
    \/ SuccessStatusWrite(r)
    \/ SuccessNotify(r)
    \/ FailedPaymentWrite(r)
    \/ FailedNotify(r)

\* deliveries may overlap: every await is a point where another request runs
Next ==
    \/ \E r \in Reqs : POST(r)
    \/ \E r \in Reqs : Handle(r)

Spec == Init /\ [][Next]_vars

\* one delivery at a time: a request arrives only when no other is in flight
Quiet == \A q \in Reqs : pc[q] \in {"idle", "done"}

NextSeq ==
    \/ \E r \in Reqs : Quiet /\ POST(r)
    \/ \E r \in Reqs : Handle(r)

SpecSeq == Init /\ [][NextSeq]_vars

\* amounts in kobo that orders are created with
Amounts == {0, 50, 1050}

PageIds == OrderIds \cup {"o9"}

\* the receipt route is opened on a store holding one order per customer
InitReceipt ==
    /\ secret = RealSecret
    /\ \E t1 \in Amounts, t2 \in Amounts :
         \E d1 \in {d \in Amounts : d <= t1}, d2 \in {d \in Amounts : d <= t2} :
           orders = [id \in OrderIds |->
              IF id = "o1" THEN MakeOrder("u1", t1, d1) ELSE MakeOrder("u2", t2, d2)]
    /\ pc = [r \in Reqs |-> "idle"]
    /\ body = [r \in Reqs |-> 1]
    /\ header = [r \in Reqs |-> NoHeader]
    /\ resp = [r \in Reqs |-> NoResp]
    /\ calls = [r \in Reqs |-> <<>>]
    /\ \E auth \in BOOLEAN, user \in UserIds \cup {NoUser}, id \in PageIds :
         page = Mounted(auth, user, id)
    /\ callback = CallbackMounted("", "")
    /\ authService = AuthIdle
    /\ backend = BackendInit

\* useEffect: redirect to /login, or start loadOrderData
Effect ==
    /\ page.pc = "effect"
    /\ page' = [page EXCEPT !.pc = IF page.isAuthenticated THEN "getOrder" ELSE "login"]
    /\ UNCHANGED <<secret, orders, pc, body, header, resp, calls, callback, authService, backend>>

\* loadOrderData: await databaseService.getOrderById(id)
GetOrderById ==
    /\ page.pc = "getOrder"
    /\ \E out \in Outcomes : page' = AfterGetOrder(page, orders, out)
    /\ UNCHANGED <<secret, orders, pc, body, header, resp, calls, callback, authService, backend>>

\* loadOrderData: await databaseService.getActiveServices()
GetActiveServices ==
    /\ page.pc = "getServices"
    /\ \E out \in Outcomes : page' = AfterGetServices(page, out)
    /\ UNCHANGED <<secret, orders, pc, body, header, resp, calls, callback, authService, backend>>

NextReceipt ==
    \/ Effect
    \/ GetOrderById
    \/ GetActiveServices

SpecReceipt == InitReceipt /\ [][NextReceipt]_vars

\* the callback page's useEffect: verifyPayment starts
CallbackEffect ==
    /\ callback.pc = "effect"
    /\ callback' = CallbackStart(callback)
    /\ UNCHANGED <<secret, orders, pc, body, header, resp, calls, page, authService, backend>>

\* variant: the page records the verified payment on the order itself
VerifyPayment_MarksPaid ==
    /\ callback.pc = "verify"
    /\ \E out \in VerifyOutcomes :
         /\ callback' = AfterVerify(callback, out)
         /\ orders' = IF out = "success"
                       THEN updateOrderPaymentStatus(orders, callback.orderId, "paid", "ok")
                       ELSE orders
    /\ UNCHANGED <<secret, pc, body, header, resp, calls, page, authService, backend>>

\* verifyPayment: await paymentService.verifyPayment(reference)
VerifyPayment ==
    /\ callback.pc = "verify"
    /\ \E out \in VerifyOutcomes : callback' = AfterVerify(callback, out)
    /\ UNCHANGED <<secret, orders, pc, body, header, resp, calls, page, authService, backend>>

\* verifyPayment: await databaseService.getOrderById(orderId)
CallbackGetOrder ==
    /\ callback.pc = "getOrder"
    /\ \E out \in DbOutcomes(callback.orderId) :
         callback' = AfterCallbackGetOrder(callback, out)
    /\ UNCHANGED <<secret, orders, pc, body, header, resp, calls, page, authService, backend>>

\* a customer returns from the gateway and opens a receipt while the
\* gateway delivers one webhook event
InitPages ==
    /\ secret = RealSecret
    /\ orders = InitOrders
    /\ pc = [r \in Reqs |-> "idle"]
    /\ body = [r \in Reqs |-> 1]
    /\ header = [r \in Reqs |-> NoHeader]
    /\ resp = [r \in Reqs |-> NoResp]
    /\ calls = [r \in Reqs |-> <<>>]
    /\ \E user \in UserIds, id \in OrderIds : page = Mounted(TRUE, user, id)
    /\ \E reference \in {"", "ref1"}, orderId \in {"", "o1", "o9"} :
         callback = CallbackMounted(reference, orderId)
    /\ authService = AuthIdle
    /\ backend = BackendInit

NextPages ==
    \/ POST(1)
    \/ Handle(1)
    \/ Effect
    \/ GetOrderById
    \/ GetActiveServices
    \/ CallbackEffect
    \/ VerifyPayment
    \/ CallbackGetOrder

SpecPages == InitPages /\ [][NextPages]_vars

\* the inputs an operation looks at
InputsOf(op) ==
    {in \in Inputs : /\ (op # "registerCustomer" => in.phoneOk)
                     /\ (op \in SimpleOps => in.valid)}

\* the call just made, added to the operation's log
Issued(a, u, out) == [a EXCEPT !.calls = Append(@, Call(a.pc, <<u>>, out))]

\* a caller invokes an operation of the service
Invoke ==
    /\ authService.pc \in {"idle", "done"}
    /\ \E op \in AuthOps : \E in \in InputsOf(op) : authService' = Begin(op, in)
    /\ UNCHANGED <<secret, orders, pc, body, header, resp, calls, page, callback, backend>>

\* variant: an operation without its try/catch
SimpleCall_Uncaught ==
    /\ authService.op \in SimpleOps
    /\ authService.pc = CallOf(authService.op)
    /\ \E out \in ExtOutcomes(backend, authService.pc, authService.input.user) :
         /\ backend' = Apply(backend, authService.pc, authService.input.user, out)
         /\ authService' =
              IF out = "ok"
              THEN Returns(Issued(authService, authService.input.user, out), Ok(""))
              ELSE [Issued(authService, authService.input.user, out)
                       EXCEPT !.pc = "done", !.threw = TRUE]
    /\ UNCHANGED <<secret, orders, pc, body, header, resp, calls, page, callback>>

\* the single awaited call of getCurrentUser, getUserProfile, getAdminProfile,
\* logout, resetPassword, completePasswordReset, verifyEmail,
\* sendEmailVerification, updatePassword, getSessions and deleteSession
SimpleCall ==
    /\ authService.op \in SimpleOps
    /\ authService.pc = CallOf(authService.op)
    /\ \E out \in ExtOutcomes(backend, authService.pc, authService.input.user) :
         /\ backend' = Apply(backend, authService.pc, authService.input.user, out)
         /\ authService' =
              Returns(Issued(authService, authService.input.user, out),
                      IF out = "ok" THEN Ok("") ELSE Err(ErrorOf(authService.op)))
    /\ UNCHANGED <<secret, orders, pc, body, header, resp, calls, page, callback>>

\* one awaited call of registerCustomer or loginCustomer: on success go on to
\* next (or return success after the last call), on a throw return the catch
\* block's failure
AfterCall(a, out, next) ==
    IF out # "ok" THEN Returns(a, Err(ErrorOf(a.op)))
    ELSE IF next = "done" THEN Returns(a, Ok(""))
    ELSE Awaits(a, next)

\* registerCustomer: await account.create(...)
RegisterCreateAccount ==
    /\ authService.op = "registerCustomer"
    /\ authService.pc = "account.create"
    /\ \E out \in ExtOutcomes(backend, authService.pc, authService.input.user) :
         /\ backend' = Apply(backend, authService.pc, authService.input.user, out)
         /\ authService' = AfterCall(Issued(authService, authService.input.user, out),
                                     out, "users.createDocument")
    /\ UNCHANGED <<secret, orders, pc, body, header, resp, calls, page, callback>>

\* variant: a failed profile write is logged and registration carries on
RegisterCreateProfile_CarriesOn ==
    /\ authService.op = "registerCustomer"
    /\ authService.pc = "users.createDocument"
    /\ \E out \in ExtOutcomes(backend, authService.pc, authService.input.user) :
         /\ backend' = Apply(backend, authService.pc, authService.input.user, out)
         /\ authService' = AfterCall(Issued(authService, authService.input.user, out),
                                     "ok", "account.createEmailPasswordSession")
    /\ UNCHANGED <<secret, orders, pc, body, header, resp, calls, page, callback>>

\* registerCustomer: await databases.createDocument(users, appwriteUser.$id, ...)
RegisterCreateProfile ==
    /\ authService.op = "registerCustomer"
    /\ authService.pc = "users.createDocument"
    /\ \E out \in ExtOutcomes(backend, authService.pc, authService.input.user) :
         /\ backend' = Apply(backend, authService.pc, authService.input.user, out)
         /\ authService' = AfterCall(Issued(authService, authService.input.user, out),
                                     out, "account.createEmailPasswordSession")
    /\ UNCHANGED <<secret, orders, pc, body, header, resp, calls, page, callback>>

\* registerCustomer: await account.createEmailPasswordSession(email, password)
RegisterCreateSession ==
    /\ authService.op = "registerCustomer"
    /\ authService.pc = "account.createEmailPasswordSession"
    /\ \E out \in ExtOutcomes(backend, authService.pc, authService.input.user) :
         /\ backend' = Apply(backend, authService.pc, authService.input.user, out)
         /\ authService' = AfterCall(Issued(authService, authService.input.user, out),
                                     out, "account.createVerification")
    /\ UNCHANGED <<secret, orders, pc, body, header, resp, calls, page, callback>>

\* registerCustomer: await account.createVerification(url)
RegisterSendVerification ==
    /\ authService.op = "registerCustomer"
    /\ authService.pc = "account.createVerification"
    /\ \E out \in ExtOutcomes(backend, authService.pc, authService.input.user) :
         /\ backend' = Apply(backend, authService.pc, authService.input.user, out)
         /\ authService' = AfterCall(Issued(authService, authService.input.user, out),
                                     out, "done")
    /\ UNCHANGED <<secret, orders, pc, body, header, resp, calls, page, callback>>

\* loginCustomer: await account.createEmailPasswordSession(email, password)
LoginCustomerSession ==
    /\ authService.op = "loginCustomer"
    /\ authService.pc = "account.createEmailPasswordSession"
    /\ \E out \in ExtOutcomes(backend, authService.pc, authService.input.user) :
         /\ backend' = Apply(backend, authService.pc, authService.input.user, out)
         /\ authService' = AfterCall(Issued(authService, authService.input.user, out),
                                     out, "account.get")
    /\ UNCHANGED <<secret, orders, pc, body, header, resp, calls, page, callback>>

\* loginCustomer: await account.get()
LoginCustomerGet ==
    /\ authService.op = "loginCustomer"
    /\ authService.pc = "account.get"
    /\ \E out \in ExtOutcomes(backend, authService.pc, backend.session) :
         /\ backend' = Apply(backend, authService.pc, backend.session, out)
         /\ authService' =
              AfterCall([Issued(authService, backend.session, out)
                            EXCEPT !.user = IF out = "ok" THEN backend.session ELSE ""],
                        out, "done")
    /\ UNCHANGED <<secret, orders, pc, body, header, resp, calls, page, callback>>

\* loginAdmin: await account.createEmailPasswordSession(email, password);
\* a throw is caught by the outer catch
LoginAdminSession ==
    /\ authService.op = "loginAdmin"
    /\ authService.pc = "account.createEmailPasswordSession"
    /\ \E out \in ExtOutcomes(backend, authService.pc, authService.input.user) :
         /\ backend' = Apply(backend, authService.pc, authService.input.user, out)
         /\ authService' = AfterCall(Issued(authService, authService.input.user, out),
                                     out, "account.get")
    /\ UNCHANGED <<secret, orders, pc, body, header, resp, calls, page, callback>>

\* loginAdmin: const user = await account.get(); a throw is caught by the
\* outer catch, which returns without logging out
LoginAdminGet ==
    /\ authService.op = "loginAdmin"
    /\ authService.pc = "account.get"
    /\ \E out \in ExtOutcomes(backend, authService.pc, backend.session) :
         /\ backend' = Apply(backend, authService.pc, backend.session, out)
         /\ authService' =
              AfterCall([Issued(authService, backend.session, out)
                            EXCEPT !.user = IF out = "ok" THEN backend.session ELSE ""],
                        out, "adminUsers.getDocument")
    /\ UNCHANGED <<secret, orders, pc, body, header, resp, calls, page, callback>>

\* variant: the admin document is not asked whether it is active
AfterAdminLookup_AnyAdmin(a, out) ==
    IF out # "ok" THEN Awaits(a, "logout.denied")
    ELSE Awaits(a, "adminUsers.updateDocument")

\* loginAdmin from getDocument's result to its next await: the inner catch
\* logs out, a deactivated admin is logged out, an active one is stamped
AfterAdminLookup(a, out) ==
    IF out # "ok" THEN Awaits(a, "logout.denied")
    ELSE IF ~AdminDoc(a.user).isActive THEN Awaits(a, "logout.deactivated")
    ELSE Awaits(a, "adminUsers.updateDocument")

\* loginAdmin: await databases.getDocument(adminUsers, user.$id)
LoginAdminGetDocument ==
    /\ authService.op = "loginAdmin"
    /\ authService.pc = "adminUsers.getDocument"
    /\ \E out \in ExtOutcomes(backend, authService.pc, authService.user) :
         /\ backend' = Apply(backend, authService.pc, authService.user, out)
         /\ authService' = AfterAdminLookup(Issued(authService, authService.user, out), out)
    /\ UNCHANGED <<secret, orders, pc, body, header, resp, calls, page, callback>>

\* loginAdmin: await databases.updateDocument(adminUsers, user.$id, {lastLogin})
LoginAdminUpdateDocument ==
    /\ authService.op = "loginAdmin"
    /\ authService.pc = "adminUsers.updateDocument"
    /\ \E out \in ExtOutcomes(backend, authService.pc, authService.user) :
         /\ backend' = Apply(backend, authService.pc, authService.user, out)
         /\ authService' =
              IF out = "ok"
              THEN Returns(Issued(authService, authService.user, out),
                           Ok(AdminDoc(authService.user).role))
              ELSE Awaits(Issued(authService, authService.user, out), "logout.denied")
    /\ UNCHANGED <<secret, orders, pc, body, header, resp, calls, page, callback>>

\* loginAdmin: await this.logout(), whose result is not looked at, then
\* return the failure of the branch
LoginAdminLogout ==
    /\ authService.op = "loginAdmin"
    /\ authService.pc \in {"logout.denied", "logout.deactivated"}
    /\ \E out \in ExtOutcomes(backend, "account.deleteSession", authService.user) :
         /\ backend' = Apply(backend, "account.deleteSession", authService.user, out)
         /\ authService' =
              Returns([authService EXCEPT !.calls =
                          Append(@, Call("account.deleteSession", <<"current">>, out))],
                      IF authService.pc = "logout.deactivated"
                      THEN Err("Admin account is deactivated")
                      ELSE Err("Access denied. Admin privileges required."))
    /\ UNCHANGED <<secret, orders, pc, body, header, resp, calls, page, callback>>

\* the service is used by one browser against the project
InitAuth ==
    /\ secret = RealSecret
    /\ orders = InitOrders
    /\ pc = [r \in Reqs |-> "idle"]
    /\ body = [r \in Reqs |-> 1]
    /\ header = [r \in Reqs |-> NoHeader]
    /\ resp = [r \in Reqs |-> NoResp]
    /\ calls = [r \in Reqs |-> <<>>]
    /\ page = Mounted(FALSE, NoUser, "o1")
    /\ callback = CallbackMounted("", "")
    /\ authService = AuthIdle
    /\ backend = BackendInit

NextAuth ==
    \/ Invoke
    \/ SimpleCall
    \/ RegisterCreateAccount
    \/ RegisterCreateProfile
    \/ RegisterCreateSession
    \/ RegisterSendVerification
    \/ LoginCustomerSession
    \/ LoginCustomerGet
    \/ LoginAdminSession
    \/ LoginAdminGet
    \/ LoginAdminGetDocument
    \/ LoginAdminUpdateDocument
    \/ LoginAdminLogout

SpecAuth == InitAuth /\ [][NextAuth]_vars

\* ===================================================================== claims
EventOf(r) == JSONparse(body[r])

\* the header equals the lower-case hex digest of the body under the secret
SignatureMatches(r) ==
    /\ secret # NoSecret
    /\ header[r].present
    /\ header[r].value = HmacHex(body[r], secret)

CountOp(cs, op) == Cardinality({i \in DOMAIN cs : cs[i].op = op})

AllOk(cs) == \A i \in DOMAIN cs : cs[i].res = "ok"

\* a delivery the signature check has let through and JSON.parse has parsed
Accepted(r) == pc[r] # "idle" /\ SignatureMatches(r) /\ EventOf(r).parse = "ok"

ChargeWithOrder(r, ev) ==
    /\ Accepted(r)
    /\ EventOf(r).event = ev
    /\ EventOf(r).hasData
    /\ MetaOf(r).orderId # ""

\* C1: a delivery whose x-paystack-signature header is missing, or is not
\* exactly (case-sensitively) the hex HMAC of its body under the secret, is
\* answered with HTTP 400 and issues no database write and no notification.
C1_BadSignatureRejected ==
    \A r \in Reqs :
        (pc[r] # "idle" /\ ~SignatureMatches(r))
            => /\ pc[r] = "done"
               /\ resp[r].status = 400
               /\ calls[r] = <<>>

\* a delivery signed with the right digest in upper case has been rejected
C1_Witness ==
    \E r \in Reqs :
        /\ pc[r] = "done" /\ secret = RealSecret
        /\ header[r].present
        /\ header[r].value = HexOf(Hmac(body[r], secret), HexUpper)
        /\ header[r].value # HmacHex(body[r], secret)
        /\ resp[r] = InvalidSignature
        /\ calls[r] = <<>>

\* the case of C2: a completed charge.success delivery carrying orderId,
\* customerPhone and customerName, none of whose external calls failed
C2_Case(r) ==
    /\ pc[r] = "done"
    /\ ChargeWithOrder(r, "charge.success")
    /\ MetaOf(r).customerPhone # "" /\ MetaOf(r).customerName # ""
    /\ AllOk(calls[r])

C2_Calls(r, ref) ==
    << Call("updateOrderPaymentStatus", <<MetaOf(r).orderId, "paid">>, "ok"),
       Call("updateOrderStatus", <<MetaOf(r).orderId, "confirmed">>, "ok"),
       Call("sendPickupConfirmation",
            <<MetaOf(r).customerPhone, MetaOf(r).customerName, ref>>, "ok") >>

C2_Completes(r) == pc[r] # "done" /\ C2_Case(r)'

\* C2 as stated: when such a delivery completes, the order is paid and
\* confirmed and the one notification call made is
\* sendPickupConfirmation(customerPhone, customerName, orderId).
C2_Original ==
    [][\A r \in Reqs : C2_Completes(r) =>
          /\ orders'[MetaOf(r).orderId].paymentStatus = "paid"
          /\ orders'[MetaOf(r).orderId].status = "confirmed"
          /\ calls'[r] = C2_Calls(r, MetaOf(r).orderId)]_vars

\* C2 amended: as above, but the third argument of the notification is
\* metadata.orderNumber when the metadata carries one, and orderId otherwise.
C2_PaidConfirmedNotified ==
    [][\A r \in Reqs : C2_Completes(r) =>
          /\ orders'[MetaOf(r).orderId].paymentStatus = "paid"
          /\ orders'[MetaOf(r).orderId].status = "confirmed"
          /\ calls'[r] = C2_Calls(r,
                IF MetaOf(r).orderNumber # "" THEN MetaOf(r).orderNumber
                ELSE MetaOf(r).orderId)]_vars

\* a delivery carrying an orderNumber has completed with all calls succeeding
C2_Witness ==
    \E r \in Reqs :
        /\ C2_Case(r)
        /\ MetaOf(r).orderNumber # ""
        /\ Len(calls[r]) = 3
        /\ orders[MetaOf(r).orderId].status = "confirmed"

\* the step in which delivery r issues one more external call
Issues(r) == Len(calls'[r]) = Len(calls[r]) + 1

LastCall(r) == calls'[r][Len(calls'[r])]

\* C3: a charge.failed delivery carrying orderId issues the payment-status
\* write with value failed (the order reads failed once that write succeeds),
\* the only notification it sends is the payment reminder, sent when its
\* guard (customerPhone and customerName) is met and the write did not throw,
\* and it never writes the status field of any order.
C3_FailedWritesAndReminds ==
    [][\A r \in Reqs : (ChargeWithOrder(r, "charge.failed") /\ Issues(r)) =>
          /\ \A id \in OrderIds : orders'[id].status = orders[id].status
          /\ LastCall(r).op \in {"updateOrderPaymentStatus", "sendPaymentReminder"}
          /\ calls'[r][1] \in {Call("updateOrderPaymentStatus",
                                    <<MetaOf(r).orderId, "failed">>, out) : out \in Outcomes}
          /\ (Len(calls'[r]) = 1 /\ LastCall(r).res = "ok")
                => orders'[MetaOf(r).orderId].paymentStatus = "failed"
          /\ (pc'[r] = "done" /\ WantsNotify(MetaOf(r)) /\ AllOk(calls'[r]))
                => /\ Len(calls'[r]) = 2
                   /\ calls'[r][2].op = "sendPaymentReminder"]_vars

\* a charge.failed delivery has written failed and sent the reminder
C3_Witness ==
    \E r \in Reqs :
        /\ pc[r] = "done"
        /\ ChargeWithOrder(r, "charge.failed")
        /\ Len(calls[r]) = 2 /\ AllOk(calls[r])
        /\ calls[r][2].op = "sendPaymentReminder"
        /\ orders[MetaOf(r).orderId].paymentStatus = "failed"
        /\ orders[MetaOf(r).orderId].status = "pending"

ChargeEvent(r) ==
    /\ Accepted(r)
    /\ EventOf(r).event \in {"charge.success", "charge.failed"}

\* C4: a validly signed, parseable charge.success or charge.failed delivery is
\* answered 200 {status: success} whatever its database writes and
\* notification calls do, and a call that fails or throws undoes no write.
C4_HandlerFailuresSwallowed ==
    [][\A r \in Reqs :
          /\ (ChargeEvent(r)' /\ pc'[r] = "done") => resp'[r] = StatusSuccess
          /\ (ChargeEvent(r) /\ Issues(r) /\ LastCall(r).res # "ok")
                => orders' = orders]_vars

\* a delivery whose status write threw after its payment write was applied
\* has been answered 200, and the payment write is still in place
C4_Witness ==
    \E r \in Reqs :
        /\ pc[r] = "done" /\ ChargeEvent(r)
        /\ Len(calls[r]) = 2
        /\ calls[r][1].res = "ok" /\ calls[r][2].res = "throw"
        /\ resp[r] = StatusSuccess
        /\ orders[MetaOf(r).orderId].paymentStatus = "paid"

\* C5: a delivery that passes the signature check and whose body does not
\* parse as an event is answered HTTP 500 and has issued no database write and
\* no notification.
C5_ParseFailureIs500 ==
    \A r \in Reqs :
        (pc[r] # "idle" /\ SignatureMatches(r) /\ EventOf(r).parse # "ok")
            => /\ pc[r] = "done"
               /\ resp[r] = ProcessingFailed
               /\ calls[r] = <<>>

\* a validly signed body that is not JSON has been answered 500
C5_Witness ==
    \E r \in Reqs :
        /\ SignatureMatches(r) /\ EventOf(r).parse = "throw"
        /\ resp[r].status = 500 /\ calls[r] = <<>>

\* C6: the receipt page stores or renders an order only when the order's
\* customerId equals the requesting user's id; when the order was fetched and
\* the ids differ (also when there is no user object) the page ends with the
\* error 'Access denied' and holds and renders no order data.
C6_ReceiptOwnerOnly ==
    /\ (page.order # NoOrder \/ page.orderItems # <<>> \/ View(page) = "receipt")
          => /\ page.id \in OrderIds
             /\ page.user # NoUser
             /\ orders[page.id].customerId = page.user
             /\ page.order = orders[page.id]
    /\ (page.pc = "done" /\ page.lookup = "ok"
            /\ orders[page.id].customerId # page.user)
          => /\ page.error = "Access denied"
             /\ page.order = NoOrder
             /\ page.orderItems = <<>>
             /\ View(page) # "receipt"

\* an authenticated context without a user object has been denied an order
C6_Witness ==
    /\ page.pc = "done" /\ page.lookup = "ok"
    /\ page.isAuthenticated /\ page.user = NoUser
    /\ page.error = "Access denied"
    /\ page.order = NoOrder

\* the case of C7 and C10: a charge.success delivery for an order, none of
\* whose external calls so far failed
NominalSuccess(r) ==
    /\ ChargeWithOrder(r, "charge.success")
    /\ AllOk(calls[r])

\* C7: with deliveries handled one after the other and external calls
\* succeeding, the second delivery of a charge.success payload issues the same
\* calls as the first (both writes, and the notification when the payload
\* carries customerPhone and customerName: once per delivery, twice in total)
\* and leaves the order as the first did: paymentStatus=paid, status=confirmed.
C7_ReplayReappliesWrites ==
    [][\A r1, r2 \in Reqs :
          ( /\ r1 # r2 /\ body[r1] = body[r2]
            /\ pc[r1] = "done" /\ NominalSuccess(r1)
            /\ pc[r2] # "done" /\ pc'[r2] = "done" /\ NominalSuccess(r2)' )
          => /\ calls'[r2] = calls[r1]
             /\ Len(calls'[r2]) >= 2
             /\ calls'[r2][1].op = "updateOrderPaymentStatus"
             /\ calls'[r2][2].op = "updateOrderStatus"
             /\ orders'[MetaOf(r2).orderId].paymentStatus = "paid"
             /\ orders'[MetaOf(r2).orderId].status = "confirmed"
             /\ WantsNotify(MetaOf(r2)) =>
                   CountOp(calls[r1], "sendPickupConfirmation")
                     + CountOp(calls'[r2], "sendPickupConfirmation") = 2]_vars

\* the same payload has been processed twice, each time with three calls
C7_Witness ==
    \E r1, r2 \in Reqs :
        /\ r1 # r2 /\ body[r1] = body[r2]
        /\ pc[r1] = "done" /\ pc[r2] = "done"
        /\ NominalSuccess(r1) /\ NominalSuccess(r2)
        /\ Len(calls[r1]) = 3 /\ Len(calls[r2]) = 3
        /\ orders[MetaOf(r1).orderId].status = "confirmed"

C9_Case(r) ==
    /\ pc[r] = "done"
    /\ ChargeWithOrder(r, "charge.success")
    /\ WantsNotify(MetaOf(r))

\* C9 as stated: the payment-status write, the order-status write and the
\* notification call are each issued exactly once, whatever the preceding
\* step returned.
C9_Original ==
    \A r \in Reqs : C9_Case(r) =>
        /\ CountOp(calls[r], "updateOrderPaymentStatus") = 1
        /\ CountOp(calls[r], "updateOrderStatus") = 1
        /\ CountOp(calls[r], "sendPickupConfirmation") = 1

\* C9 amended: no call is retried; the payment-status write is issued exactly
\* once; the order-status write is issued once if the payment-status write
\* reported success and not at all otherwise; the notification is issued once
\* if moreover the order-status write did not throw (whatever it reported),
\* and not at all otherwise.
C9_CallsOnceAndConditional ==
    \A r \in Reqs :
        /\ \A op \in {"updateOrderPaymentStatus", "updateOrderStatus",
                      "sendPickupConfirmation"} : CountOp(calls[r], op) <= 1
        /\ C9_Case(r) =>
              /\ Len(calls[r]) >= 1
              /\ calls[r][1].op = "updateOrderPaymentStatus"
              /\ CountOp(calls[r], "updateOrderStatus") =
                    (IF calls[r][1].res = "ok" THEN 1 ELSE 0)
              /\ CountOp(calls[r], "sendPickupConfirmation") =
                    (IF calls[r][1].res = "ok" /\ calls[r][2].res # "throw" THEN 1 ELSE 0)

\* one delivery stopped after a payment write that reported failure, and
\* another was notified although its status write reported failure
C9_Witness ==
    \E r1, r2 \in Reqs :
        /\ C9_Case(r1) /\ Len(calls[r1]) = 1 /\ calls[r1][1].res = "fail"
        /\ C9_Case(r2) /\ Len(calls[r2]) = 3 /\ calls[r2][2].res = "fail"

C10_Calls(r) ==
    C2_Calls(r, IF MetaOf(r).orderNumber # "" THEN MetaOf(r).orderNumber
                ELSE MetaOf(r).orderId)

\* C10: when two deliveries of the same charge.success event for one order
\* overlap in any way, no other delivery writes, and external calls succeed,
\* each of the two performs its payment-status write, its order-status write
\* and its notification, each is answered 200, and the order is paid as soon
\* as one payment write is applied, confirmed as soon as one status write is,
\* and paid and confirmed at the end.
C10_NoDoubleProcessingGuard ==
    \A r1, r2 \in Reqs :
        ( /\ r1 # r2 /\ body[r1] = body[r2]
          /\ NominalSuccess(r1) /\ NominalSuccess(r2)
          /\ WantsNotify(MetaOf(r1))
          /\ \A q \in Reqs \ {r1, r2} : calls[q] = <<>> )
        => /\ Len(calls[r1]) >= 1 => orders[MetaOf(r1).orderId].paymentStatus = "paid"
           /\ Len(calls[r1]) >= 2 => orders[MetaOf(r1).orderId].status = "confirmed"
           /\ (pc[r1] = "done" /\ pc[r2] = "done")
                 => /\ calls[r1] = C10_Calls(r1)
                    /\ calls[r2] = C10_Calls(r2)
                    /\ resp[r1] = StatusSuccess /\ resp[r2] = StatusSuccess
                    /\ orders[MetaOf(r1).orderId].paymentStatus = "paid"
                    /\ orders[MetaOf(r1).orderId].status = "confirmed"

\* two deliveries of one event are both past their two writes, both in flight
C10_Witness ==
    \E r1, r2 \in Reqs :
        /\ r1 # r2 /\ body[r1] = body[r2]
        /\ NominalSuccess(r1) /\ NominalSuccess(r2)
        /\ pc[r1] = "pickup" /\ pc[r2] = "pickup"
        /\ Len(calls[r1]) = 2 /\ Len(calls[r2]) = 2
        /\ orders[MetaOf(r1).orderId].paymentStatus = "paid"
        /\ orders[MetaOf(r1).orderId].status = "confirmed"

\* C11: the payment status of an order is always the value of the payment
\* write that was applied last, whichever delivery issued it: every applied
\* payment write sets it, nothing else changes it, and neither handler skips
\* its write because of what the order already holds.  (A charge.failed write
\* landing after a charge.success delivery leaves failed with confirmed.)
C11_LastPaymentWriteWins ==
    [][ /\ \A r \in Reqs :
              (Issues(r) /\ LastCall(r).op = "updateOrderPaymentStatus"
                         /\ LastCall(r).res = "ok")
                 => orders'[LastCall(r).args[1]].paymentStatus = LastCall(r).args[2]
        /\ \A id \in OrderIds :
              orders'[id].paymentStatus # orders[id].paymentStatus
                 => \E r \in Reqs :
                       /\ Issues(r)
                       /\ LastCall(r) = Call("updateOrderPaymentStatus",
                                             <<id, orders'[id].paymentStatus>>, "ok")
        /\ \A r \in Reqs : \A ev \in {"charge.success", "charge.failed"} :
              (pc[r] # "done" /\ pc'[r] = "done" /\ ChargeWithOrder(r, ev)')
                 => /\ Len(calls'[r]) >= 1
                    /\ calls'[r][1].op = "updateOrderPaymentStatus"
                    /\ calls'[r][1].args =
                          <<MetaOf(r).orderId,
                            IF ev = "charge.success" THEN "paid" ELSE "failed">> ]_vars

\* a charge.success and a charge.failed delivery for one order are both done
\* and the order reads failed and confirmed
C11_Witness ==
    \E r1, r2 \in Reqs :
        /\ pc[r1] = "done" /\ ChargeWithOrder(r1, "charge.success")
        /\ pc[r2] = "done" /\ ChargeWithOrder(r2, "charge.failed")
        /\ MetaOf(r1).orderId = MetaOf(r2).orderId
        /\ MetaOf(r1).orderId \in OrderIds
        /\ orders[MetaOf(r1).orderId].paymentStatus = "failed"
        /\ orders[MetaOf(r1).orderId].status = "confirmed"

\* C12: within one delivery the external calls are awaited one after the
\* other: a call is issued only while no response exists, the status write is
\* issued only after the payment write has settled, the notification only
\* after the status write has settled, and the response is produced only when
\* the request is over, after which it issues no further call.
C12_SequentialAwaits ==
    [][\A r \in Reqs :
          /\ calls'[r] # calls[r]
                => /\ Issues(r)
                   /\ SubSeq(calls'[r], 1, Len(calls[r])) = calls[r]
                   /\ resp[r] = NoResp
                   /\ pc[r] \notin {"idle", "done"}
          /\ resp'[r] # NoResp => pc'[r] = "done"
          /\ pc[r] = "done" => (calls'[r] = calls[r] /\ resp'[r] = resp[r])
          /\ (ChargeWithOrder(r, "charge.success") /\ Issues(r))
                => /\ LastCall(r).op = "updateOrderPaymentStatus" => calls[r] = <<>>
                   /\ LastCall(r).op = "updateOrderStatus"
                         => /\ Len(calls[r]) = 1
                            /\ calls[r][1].op = "updateOrderPaymentStatus"
                            /\ calls[r][1].res = "ok"
                   /\ LastCall(r).op = "sendPickupConfirmation"
                         => /\ Len(calls[r]) = 2
                            /\ calls[r][1].op = "updateOrderPaymentStatus"
                            /\ calls[r][2].op = "updateOrderStatus"
                            /\ calls[r][2].res # "throw" ]_vars

\* a charge.success delivery was answered after its three calls had settled
C12_Witness ==
    \E r \in Reqs :
        /\ pc[r] = "done" /\ ChargeWithOrder(r, "charge.success")
        /\ Len(calls[r]) = 3
        /\ calls[r][3].op = "sendPickupConfirmation"
        /\ resp[r] = StatusSuccess

\* a validly signed, parsed event that is not a charge event with an orderId
InertEvent(r) ==
    /\ Accepted(r)
    /\ ~ ( /\ EventOf(r).event \in {"charge.success", "charge.failed"}
           /\ EventOf(r).hasData
           /\ MetaOf(r).orderId # "" )

\* C14: a validly signed event that is not charge.success or charge.failed
\* with an orderId in its metadata issues no database write and no
\* notification call and is answered 200 {status: success}.
C14_OtherEventsNoEffect ==
    \A r \in Reqs :
        InertEvent(r) => /\ pc[r] = "done"
                         /\ resp[r] = StatusSuccess
                         /\ calls[r] = <<>>
                         /\ (\A q \in Reqs : calls[q] = <<>>) => orders = InitOrders

\* a charge.success event without orderId and a transfer event were acknowledged
C14_Witness ==
    \E r1, r2 \in Reqs :
        /\ InertEvent(r1) /\ EventOf(r1).event = "charge.success"
        /\ EventOf(r1).hasData /\ resp[r1] = StatusSuccess
        /\ InertEvent(r2) /\ EventOf(r2).event = "transfer.failed"
        /\ resp[r2] = StatusSuccess
        /\ orders = InitOrders

\* C18 as stated: a delivery that has sent the pickup confirmation has had
\* both its payment-status write and its order-status write succeed.
C18_NotifiedOnlyAfterBothWrites ==
    \A r \in Reqs :
        CountOp(calls[r], "sendPickupConfirmation") > 0
            => /\ \E i \in DOMAIN calls[r] :
                     calls[r][i].op = "updateOrderPaymentStatus" /\ calls[r][i].res = "ok"
               /\ \E i \in DOMAIN calls[r] :
                     calls[r][i].op = "updateOrderStatus" /\ calls[r][i].res = "ok"

NotificationOps == {"sendPickupConfirmation", "sendPaymentReminder"}

\* C19: a notification call is made only for metadata carrying both
\* customerPhone and customerName, and names the order by metadata.orderNumber
\* when present and by metadata.orderId otherwise; a charge delivery lacking
\* either field still issues its database writes and makes no notification.
C19_NotifyGuardAndReference ==
    \A r \in Reqs :
        /\ \A i \in DOMAIN calls[r] :
              calls[r][i].op \in NotificationOps
                 => /\ MetaOf(r).customerPhone # "" /\ MetaOf(r).customerName # ""
                    /\ calls[r][i].args =
                          <<MetaOf(r).customerPhone, MetaOf(r).customerName,
                            IF MetaOf(r).orderNumber # "" THEN MetaOf(r).orderNumber
                            ELSE MetaOf(r).orderId>>
        /\ ( /\ pc[r] = "done"
             /\ (ChargeWithOrder(r, "charge.success") \/ ChargeWithOrder(r, "charge.failed"))
             /\ (MetaOf(r).customerPhone = "" \/ MetaOf(r).customerName = "") )
              => /\ \A i \in DOMAIN calls[r] : calls[r][i].op \notin NotificationOps
                 /\ Len(calls[r]) >= 1
                 /\ calls[r][1].op = "updateOrderPaymentStatus"
                 /\ (EventOf(r).event = "charge.success" /\ calls[r][1].res = "ok")
                       => (Len(calls[r]) = 2 /\ calls[r][2].op = "updateOrderStatus")

\* one delivery without customerName wrote twice and notified nobody, another
\* carrying an orderNumber was notified under that number
C19_Witness ==
    \E r1, r2 \in Reqs :
        /\ pc[r1] = "done" /\ ChargeWithOrder(r1, "charge.success")
        /\ MetaOf(r1).customerName = "" /\ MetaOf(r1).customerPhone # ""
        /\ Len(calls[r1]) = 2 /\ AllOk(calls[r1])
        /\ pc[r2] = "done" /\ MetaOf(r2).orderNumber # ""
        /\ Len(calls[r2]) >= 1
        /\ calls[r2][Len(calls[r2])].op \in NotificationOps
        /\ calls[r2][Len(calls[r2])].args[3] = MetaOf(r2).orderNumber

WriteOps == {"updateOrderPaymentStatus", "updateOrderStatus"}

\* C13: paymentStatus and status of an order change only in a step in which a
\* webhook handler issues a database write; every step of the payment callback
\* page (whatever the verification outcome) and of the receipt page leaves the
\* orders as they are and issues no write.
C13_OnlyWebhookWrites ==
    [][ /\ orders' # orders
           => \E r \in Reqs : /\ Issues(r)
                              /\ pc[r] \in {"payWrite", "statusWrite", "failWrite"}
                              /\ LastCall(r).op \in WriteOps
        /\ (callback' # callback \/ page' # page)
           => (orders' = orders /\ calls' = calls) ]_vars

\* the callback page reports success for o1 and the receipt of o1 is shown
\* while the order itself is still pending
C13_Witness ==
    /\ callback.pc = "done"
    /\ callback.verificationResult.success
    /\ callback.verificationResult.orderNumber = OrderNumberOf("o1")
    /\ callback.redirect = "o1"
    /\ page.pc = "done" /\ page.id = "o1" /\ page.order = orders["o1"]
    /\ orders["o1"].paymentStatus = "pending"

\* the operation has returned to its caller
Returned(op) == authService.op = op /\ authService.pc = "done"

\* the i-th external call of the running operation was made and resolved
CallOk(i, call) ==
    /\ Len(authService.calls) >= i
    /\ authService.calls[i].op = call
    /\ authService.calls[i].res = "ok"

\* C15: loginAdmin returns success, with the role, only when the
\* authenticated user has an admin-users document whose isActive is true; an
\* authenticated user without such a document gets success=false with
\* 'Access denied. Admin privileges required.', a deactivated admin gets
\* success=false, and both are returned results, not thrown errors.
C15_AdminLoginOnlyForActiveAdmins ==
    Returned("loginAdmin") =>
        /\ authService.result.set /\ ~authService.threw
        /\ authService.result.success
              => /\ authService.user \in AdminUsers
                 /\ AdminDoc(authService.user).isActive
                 /\ authService.result.role = AdminDoc(authService.user).role
                 /\ CallOk(3, "adminUsers.getDocument")
        /\ (authService.user # "" /\ authService.user \notin AdminUsers)
              => /\ ~authService.result.success
                 /\ authService.result.error = "Access denied. Admin privileges required."
        /\ (authService.user \in AdminUsers /\ ~AdminDoc(authService.user).isActive)
              => /\ ~authService.result.success
                 /\ CallOk(3, "adminUsers.getDocument")
                       => authService.result.error = "Admin account is deactivated"

\* after an active admin has logged in, a deactivated admin is turned away
C15_Witness ==
    /\ "admin" \in backend.lastLogin
    /\ Returned("loginAdmin")
    /\ authService.user = "exadmin"
    /\ authService.result.error = "Admin account is deactivated"

\* C16: no operation of the service lets an exception of an external call
\* escape: it returns a result, success=false with a message whenever one of
\* its external calls failed, and success=true only if every external call it
\* made succeeded.
C16_NoExceptionEscapes ==
    /\ ~authService.threw
    /\ authService.pc = "done"
          => /\ authService.op \in AuthOps
             /\ authService.result.set
             /\ authService.result.success
                   => \A i \in DOMAIN authService.calls : authService.calls[i].res = "ok"
             /\ ~authService.result.success => authService.result.error # ""
             /\ (\E i \in DOMAIN authService.calls : authService.calls[i].res # "ok")
                   => ~authService.result.success

\* updatePassword was rejected by the backend and reported the failure
C16_Witness ==
    /\ Returned("updatePassword")
    /\ Len(authService.calls) = 1
    /\ authService.calls[1].res = "throw"
    /\ authService.result = Err("Failed to update password")

\* C17 as stated: when loginAdmin returns success=false after the admin
\* lookup was reached (not an admin, deactivated, or last-login update
\* failed), the session it created is gone.
C17_FailedAdminLoginLeavesNoSession ==
    ( /\ Returned("loginAdmin")
      /\ ~authService.result.success
      /\ CallOk(1, "account.createEmailPasswordSession")
      /\ Len(authService.calls) >= 3 )
        => backend.session = NoSession

\* the external calls of a successful registration, in order
RegisterCalls == <<"account.create", "users.createDocument",
                   "account.createEmailPasswordSession", "account.createVerification">>

\* C20: registerCustomer makes no external call when the schema or the phone
\* check rejects the input; otherwise it creates the account, the profile
\* document, the session and the verification email strictly in that order,
\* stops at the first call that fails and returns success=false, and undoes
\* nothing of what the earlier calls created.
C20_RegisterCallOrder ==
    authService.op = "registerCustomer" =>
        LET c == authService.calls
            u == authService.input.user
            n == Len(authService.calls) IN
        /\ n <= Len(RegisterCalls)
        /\ \A i \in 1..n : c[i].op = RegisterCalls[i] /\ c[i].args = <<u>>
        /\ \A i \in 1..n : i < n => c[i].res = "ok"
        /\ (~authService.input.valid \/ ~authService.input.phoneOk)
              => (n = 0 /\ authService.pc = "done" /\ ~authService.result.success)
        /\ authService.pc = "done"
              => /\ authService.result.success <=> (n = Len(RegisterCalls) /\ c[n].res = "ok")
                 /\ (authService.input.valid /\ authService.input.phoneOk /\ n < Len(RegisterCalls))
                       => (n > 0 /\ c[n].res # "ok")
        /\ CallOk(1, "account.create") => u \in backend.accounts
        /\ CallOk(2, "users.createDocument") => u \in backend.profiles
        /\ CallOk(3, "account.createEmailPasswordSession") => backend.session = u

\* a registration failed at the verification email: the account, the profile
\* and the session it created are still there
C20_Witness ==
    /\ Returned("registerCustomer")
    /\ ~authService.result.success
    /\ Len(authService.calls) = 4
    /\ authService.calls[4].res = "throw"
    /\ "new" \in backend.accounts /\ "new" \in backend.profiles
    /\ backend.session = "new"

TypeOK ==
    /\ secret \in {NoSecret, RealSecret}
    /\ \A r \in Reqs : pc[r] \in {"idle", "payWrite", "statusWrite", "pickup", "failWrite", "reminder", "done"}
    /\ \A r \in Reqs : body[r] \in BodyIds

====
